---- MODULE Spec2Model ----
(***************************************************************************)
(* Model of TrendFollowingBot (src/givemeajob.py): the strategy loop       *)
(* run_strategy, the order lifecycle place_trailing_stop_order with its    *)
(* fill wait, the position check, the position sizer and the indicator     *)
(* engine, running against a brokerage that may fill, delay, reject or     *)
(* fail any call.                                                          *)
(*                                                                         *)
(* Units: money in cents, closes of bars in whole dollars, time in         *)
(* seconds, fractions in hundredths; the indicators are floats.            *)
(***************************************************************************)
EXTENDS Integers, Sequences, FiniteSets

(***************************************************************************)
(* Bounds of the model.                                                    *)
(***************************************************************************)
\* order_wait_timeout of the constructor (default 60), scaled down
OrderWaitTimeout == 3
\* longest time, in seconds, a status query takes to answer
MaxLatency == 1
\* entry (buy) orders the bot is followed through; every one of them can
\* get its stop, so the book holds up to twice as many orders
MaxEntries == 2

(***************************************************************************)
(* Program constants.                                                      *)
(***************************************************************************)
Period == 14
RsiMaWindow == 10
RocWindow == 5
RsiThreshold == 50
EpsilonInverse == 1000000
MinBars == 20
CheckInterval == 300
DataSleep == 300
PriceSleep == 60
BackoffSleep == 300
PollSleep == 1
RiskPercent == 5
TrailingStopHundredths == 5
SecondsPerDay == 86400

None == -1

Max(a, b) == IF a >= b THEN a ELSE b
Min(a, b) == IF a <= b THEN a ELSE b

(***************************************************************************)
(* Inputs: bar series (closes), quotes, fills, buying power, clock.        *)
(***************************************************************************)
Short19 == [i \in 1..19 |-> 100]
Flat23 == [i \in 1..23 |-> 100]
Linear23 == [i \in 1..23 |-> 99 + i]
Rally23 == << 110, 109, 108, 107, 106, 105, 104, 103, 102, 101, 100, 100,
              100, 100, 101, 102, 103, 104, 105, 106, 107, 108, 110 >>
Slump23 == [i \in 1..23 |-> IF i <= 12 THEN 99 + i ELSE 122 - i]
\* 20 closes rising by one dollar a day
Linear20 == [i \in 1..20 |-> 99 + i]
Series == << Short19, Flat23, Linear23, Rally23, Slump23, Linear20 >>

LatestPrices == {12000}
FillPrices == {12050}
BuyingPowers == {10000, 1000000}
\* seconds from now to the next open reported by the clock
NextOpenDeltas == {60, 3600, 2 * SecondsPerDay + 60, 2 * SecondsPerDay + 3600}

(***************************************************************************)
(* The floats of calculate_rsi and calculate_position_size: every float   *)
(* is the double nearest to its decimal, and every sum, difference,        *)
(* product and quotient is rounded to the nearest double, ties to even;    *)
(* the significands do not fit the integers of the checker and are kept as *)
(* sequences of limbs.                                                     *)
(***************************************************************************)
\* a natural number as its limbs in base LimbBase, least significant first
LimbBits == 15
LimbBase == 32768
\* bits of the significand of a float of Python (IEEE 754 binary64)
MantissaBits == 53

Pow2Table ==
  << 1, 2, 4, 8, 16, 32, 64, 128, 256, 512, 1024, 2048, 4096, 8192, 16384,
     32768 >>

\* 2^k for k in 0..LimbBits
Pow2(k) == Pow2Table[k + 1]

\* a without its leading zero limbs
BigTrim(a) ==
  LET nz == {i \in 1..Len(a) : a[i] # 0}
  IN  IF nz = {} THEN << >>
      ELSE SubSeq(a, 1, CHOOSE i \in nz : \A j \in nz : j <= i)

BigOfInt(n) ==
  BigTrim(<< n % LimbBase, (n \div LimbBase) % LimbBase,
             n \div (LimbBase * LimbBase) >>)

BigLimb(a, i) == IF i <= Len(a) THEN a[i] ELSE 0

\* a * k + c for 0 <= k, c < LimbBase
BigMulSmall(a, k, c) ==
  LET n == Len(a)
      C[i \in 0..n] ==
        IF i = 0 THEN c ELSE (a[i] * k + C[i - 1]) \div LimbBase
  IN  BigTrim([i \in 1..(n + 1) |->
                 IF i <= n THEN (a[i] * k + C[i - 1]) % LimbBase ELSE C[n]])

BigAdd(a, b) ==
  LET n == Max(Len(a), Len(b))
      C[i \in 0..n] ==
        IF i = 0 THEN 0
        ELSE (BigLimb(a, i) + BigLimb(b, i) + C[i - 1]) \div LimbBase
  IN  BigTrim([i \in 1..(n + 1) |->
                 IF i <= n
                 THEN (BigLimb(a, i) + BigLimb(b, i) + C[i - 1]) % LimbBase
                 ELSE C[n]])

\* a - b for a >= b
BigSub(a, b) ==
  LET n == Len(a)
      W[i \in 0..n] ==
        IF i = 0 THEN 0
        ELSE IF a[i] - BigLimb(b, i) - W[i - 1] < 0 THEN 1 ELSE 0
  IN  BigTrim([i \in 1..n |->
                 (a[i] - BigLimb(b, i) - W[i - 1] + LimbBase) % LimbBase])

\* a >= b, both trimmed
BigGeq(a, b) ==
  IF Len(a) # Len(b) THEN Len(a) > Len(b)
  ELSE LET df == {i \in 1..Len(a) : a[i] # b[i]}
       IN  IF df = {} THEN TRUE
           ELSE LET i == CHOOSE i \in df : \A j \in df : j <= i
                IN  a[i] > b[i]

\* number of bits of a limb
BitLenSmall(x) == Cardinality({j \in 0..(LimbBits - 1) : Pow2(j) <= x})

BigBitLen(a) ==
  IF a = << >> THEN 0
  ELSE (Len(a) - 1) * LimbBits + BitLenSmall(a[Len(a)])

\* bit j of a, bit 0 the least significant
BigBit(a, j) ==
  (BigLimb(a, (j \div LimbBits) + 1) \div Pow2(j % LimbBits)) % 2

\* a * 2^s
BigShl(a, s) ==
  BigMulSmall([i \in 1..(s \div LimbBits) |-> 0] \o a, Pow2(s % LimbBits), 0)

\* floor(a / 2^s)
BigShr(a, s) ==
  LET k == s \div LimbBits
      r == s % LimbBits
      n == Len(a) - k
  IN  IF n <= 0 THEN << >>
      ELSE BigTrim([i \in 1..n |->
             (a[i + k] \div Pow2(r))
             + (BigLimb(a, i + k + 1) % Pow2(r)) * Pow2(LimbBits - r)])

BigMul(a, b) ==
  LET P[i \in 0..Len(b)] ==
        IF i = 0 THEN << >>
        ELSE BigAdd(P[i - 1],
                    BigTrim([j \in 1..(i - 1) |-> 0]
                            \o BigMulSmall(a, b[i], 0)))
  IN  P[Len(b)]

\* the largest c in 0..31 with d * (g + c * unit) <= cur
BigDivStep(cur, d, g, unit) ==
  CHOOSE c \in 0..31 :
    /\ BigGeq(cur, BigMulSmall(d, g + c * unit, 0))
    /\ c = 31 \/ ~BigGeq(cur, BigMulSmall(d, g + (c + 1) * unit, 0))

\* the largest g < LimbBase with g * d <= cur, for cur < d * LimbBase:
\* its three digits in base 32, the most significant first
BigDivDigit(cur, d) ==
  LET g1 == 1024 * BigDivStep(cur, d, 0, 1024)
      g2 == g1 + 32 * BigDivStep(cur, d, g1, 32)
  IN  g2 + BigDivStep(cur, d, g2, 1)

\* quotient and remainder of n by d # 0: long division, limb by limb
BigDivMod(n, d) ==
  LET L == Len(n)
      S[k \in 0..L] ==
        IF k = 0 THEN [q |-> << >>, r |-> << >>]
        ELSE LET prev == S[k - 1]
                 cur == BigTrim(<< n[L - k + 1] >> \o prev.r)
             IN  IF cur = << >>
                 THEN [q |-> BigTrim(<< 0 >> \o prev.q), r |-> << >>]
                 ELSE LET g == BigDivDigit(cur, d)
                      IN  [q |-> BigTrim(<< g >> \o prev.q),
                           r |-> BigSub(cur, BigMulSmall(d, g, 0))]
  IN  S[L]

\* the value of a < 2^31
BigToInt(a) ==
  BigLimb(a, 1) + LimbBase * (BigLimb(a, 2) + LimbBase * BigLimb(a, 3))

\* the only element of a singleton: Only({F(x) : x \in {v}}) is F(v) with
\* its operand evaluated once
Only(S) == CHOOSE x \in S : TRUE

\* a double: (-1)^neg * m * 2^e with m of at most MantissaBits bits
Float(neg, m, e) == [nan |-> FALSE, neg |-> neg, m |-> m, e |-> e]

NaN == [nan |-> TRUE, neg |-> FALSE, m |-> << >>, e |-> 0]

Zero == Float(FALSE, << >>, 0)

\* the significand q, cut from a number with the bits rem below it and
\* half = half a unit of q, rounded to nearest, ties to even
Rounded(neg, q, rem, half, sticky, e) ==
  LET up == IF rem = half THEN (sticky \/ BigBit(q, 0) = 1)
            ELSE BigGeq(rem, half)
  IN  Float(neg, IF up THEN BigAdd(q, << 1 >>) ELSE q, e)

\* the double nearest to (-1)^neg * n * 2^e (n plus a fraction below one
\* unit of n when sticky), ties to even
Round(neg, n, sticky, e) ==
  LET s == BigBitLen(n) - MantissaBits
  IN  IF s <= 0 THEN Float(neg, n, e)
      ELSE Only({Only({Rounded(neg, q, rem, BigShl(<< 1 >>, s - 1), sticky,
                               e + s) :
                         rem \in {BigSub(n, BigShl(q, s))}}) :
                   q \in {BigShr(n, s)}})

FNeg(a) == [a EXCEPT !.neg = ~a.neg]

\* the sum of (-1)^na * x * 2^e and (-1)^nb * y * 2^e, rounded; the sum of
\* two opposite numbers is +0
AddAligned(na, x, nb, y, e) ==
  IF na = nb THEN Only({Round(na, n, FALSE, e) : n \in {BigAdd(x, y)}})
  ELSE IF x = y THEN Zero
  ELSE IF BigGeq(x, y)
  THEN Only({Round(na, n, FALSE, e) : n \in {BigSub(x, y)}})
  ELSE Only({Round(nb, n, FALSE, e) : n \in {BigSub(y, x)}})

\* a + b of two values: the significands aligned to the smaller exponent
AddValues(a, b) ==
  Only({AddAligned(a.neg, x, b.neg, y, Min(a.e, b.e)) :
          x \in {BigShl(a.m, a.e - Min(a.e, b.e))},
          y \in {BigShl(b.m, b.e - Min(a.e, b.e))}})

\* a + b
FAdd(a, b) == Only({AddValues(x, y) : x \in {a}, y \in {b}})

\* a - b
FSub(a, b) == Only({AddValues(x, FNeg(y)) : x \in {a}, y \in {b}})

MulValues(a, b) ==
  IF a.m = << >> \/ b.m = << >> THEN Float(a.neg # b.neg, << >>, 0)
  ELSE Only({Round(a.neg # b.neg, n, FALSE, a.e + b.e) :
               n \in {BigMul(a.m, b.m)}})

\* a * b
FMul(a, b) == Only({MulValues(x, y) : x \in {a}, y \in {b}})

\* the quotient of a by b, a # 0, from the integer quotient qr of a.m * 2^t
\* by b.m
QuotientValue(a, b, t, qr) == Round(a.neg # b.neg, qr.q, qr.r # << >>, a.e - b.e - t)

DivValues(a, b) ==
  IF a.m = << >> THEN Float(a.neg # b.neg, << >>, 0)
  ELSE Only({Only({QuotientValue(a, b, t, qr) :
                     qr \in {BigDivMod(BigShl(a.m, t), b.m)}}) :
               t \in {Max(0, MantissaBits + 3 + BigBitLen(b.m)
                              - BigBitLen(a.m))}})

\* a / b for b # 0
FDiv(a, b) == Only({DivValues(x, y) : x \in {a}, y \in {b}})

\* a == b and a > b of floats: False when either is NaN, and -0 == +0
EqValues(a, b) == ~a.nan /\ ~b.nan /\ AddValues(a, FNeg(b)).m = << >>

FEq(a, b) == Only({EqValues(x, y) : x \in {a}, y \in {b}})

GreaterValues(a, b) ==
  /\ ~a.nan /\ ~b.nan
  /\ Only({d.m # << >> /\ ~d.neg : d \in {AddValues(a, FNeg(b))}})

FGreater(a, b) == Only({GreaterValues(x, y) : x \in {a}, y \in {b}})

\* float(n) for an integer n >= 0
FOfInt(n) == Float(FALSE, BigOfInt(n), 0)

\* float of the decimal n / d
FOfRatio(n, d) == FDiv(FOfInt(n), FOfInt(d))

\* int(f) for f >= 0
FTrunc(f) ==
  IF f.e >= 0 THEN BigToInt(BigShl(f.m, f.e)) ELSE BigToInt(BigShr(f.m, 0 - f.e))

(***************************************************************************)
(* Rolling mean of pandas (roll_mean of window/aggregations.pyx), as       *)
(* rolling(window, min_periods).mean() computes it: a running sum with     *)
(* Kahan compensation, one for the values that enter the window and one    *)
(* for those that leave it.                                                *)
(***************************************************************************)
\* add_mean: the value v enters the window
AddMean(s, v) ==
  IF v.nan THEN s
  ELSE Only({Only({[s EXCEPT !.nobs = @ + 1,
                             !.ca = FSub(FSub(t, s.sum), y),
                             !.sum = t,
                             !.neg = @ + (IF v.neg THEN 1 ELSE 0),
                             !.same = IF FEq(v, s.prev) THEN @ + 1 ELSE 1,
                             !.prev = v] :
                     t \in {FAdd(s.sum, y)}}) :
               y \in {FSub(v, s.ca)}})

\* remove_mean: the value v leaves the window
RemoveMean(s, v) ==
  IF v.nan THEN s
  ELSE Only({Only({[s EXCEPT !.nobs = @ - 1,
                             !.cr = FSub(FSub(t, s.sum), y),
                             !.sum = t,
                             !.neg = @ - (IF v.neg THEN 1 ELSE 0)] :
                     t \in {FAdd(s.sum, y)}}) :
               y \in {FSub(FNeg(v), s.cr)}})

\* calc_mean: the mean of the window, NaN below minp observations
CalcMean(s, minp) ==
  IF s.nobs >= minp /\ s.nobs > 0
  THEN IF s.same >= s.nobs THEN s.prev
       ELSE Only({IF s.neg = 0 /\ FGreater(Zero, r) THEN Zero
                  ELSE IF s.neg = s.nobs /\ FGreater(r, Zero) THEN Zero
                  ELSE r :
                    r \in {FDiv(s.sum, FOfInt(s.nobs))}})
  ELSE NaN

\* one row of the rolling mean: the value old leaves the window when it is
\* full, the value new enters it, and the mean is appended to the output
RollStep(s, full, old, new, minp) ==
  Only({Only({[a EXCEPT !.out = Append(@, CalcMean(a, minp))] :
                a \in {AddMean(r, new)}}) :
          r \in {IF full THEN RemoveMean(s, old) ELSE s}})

\* the rolling mean of the values v
RollValues(v, w, minp) ==
  LET n == Len(v)
      S[i \in 0..n] ==
        IF i = 0
        THEN [sum |-> Zero, ca |-> Zero, cr |-> Zero, nobs |-> 0, neg |-> 0,
              same |-> 0, prev |-> v[1], out |-> << >>]
        ELSE Only({RollStep(p, i > w, old, new, minp) :
                     p \in {S[i - 1]}, old \in {v[Max(1, i - w)]},
                     new \in {v[i]}})
  IN  IF n = 0 THEN << >> ELSE S[n].out

\* v.rolling(window=w, min_periods=minp).mean()
RollMean(v, w, minp) == Only({RollValues(u, w, minp) : u \in {v}})

(***************************************************************************)
(* Indicator engine: calculate_rsi.  Row i of the frame is c[i], 1-based.  *)
(***************************************************************************)
\* delta.where(delta > 0, 0): the first delta is NaN and becomes 0
Gain(c, i) ==
  IF i > 1 /\ c[i] > c[i - 1] THEN FOfInt(c[i] - c[i - 1]) ELSE Zero

\* -delta.where(delta < 0, 0): the negation of a 0 is -0.0
Loss(c, i) ==
  IF i > 1 /\ c[i] < c[i - 1] THEN FOfInt(c[i - 1] - c[i]) ELSE FNeg(Zero)

\* gain.rolling(window=period, min_periods=period).mean()
AvgGain(c) == RollMean([i \in 1..Len(c) |-> Gain(c, i)], Period, Period)

\* avg_loss.replace(0, 0.000001)
Replaced(m) ==
  SubSeq([i \in 1..Len(m) |->
            IF FEq(m[i], Zero) THEN FOfRatio(1, EpsilonInverse) ELSE m[i]],
         1, Len(m))

\* loss.rolling(window=period, min_periods=period).mean(), its 0 replaced
AvgLoss(c) ==
  Only({Replaced(m) :
          m \in {RollMean([i \in 1..Len(c) |-> Loss(c, i)], Period, Period)}})

\* rs = avg_gain / avg_loss; rsi = 100 - (100 / (1 + rs)), one row
RsiValue(g, l) ==
  IF g.nan \/ l.nan THEN NaN
  ELSE FSub(FOfInt(100), FDiv(FOfInt(100), FAdd(FOfInt(1), FDiv(g, l))))

\* column RSI of the frame
RSI(c) ==
  Only({SubSeq([i \in 1..Len(c) |-> RsiValue(g[i], l[i])], 1, Len(c)) :
          g \in {AvgGain(c)}, l \in {AvgLoss(c)}})

\* data['RSI'].rolling(window=10).mean(), column RSI_MA of the frame rsi
RSI_MA(rsi) == RollMean(rsi, RsiMaWindow, RsiMaWindow)

\* data['close'].pct_change(5) * 100 at row i: (close / shifted - 1) * 100
ROC(c, i) ==
  IF i <= RocWindow THEN NaN
  ELSE FMul(FSub(FDiv(FOfInt(c[i]), FOfInt(c[i - RocWindow])), FOfInt(1)),
            FOfInt(100))

\* calculate_rsi: column RSI of the frame it returns, << >> when it returns
\* None (fewer than period rows, or the quote of its log line failed and
\* the format of None raised)
CalculateRsi(c, priceOk) ==
  IF Len(c) < Period \/ ~priceOk THEN << >> ELSE RSI(c)

(***************************************************************************)
(* Signal evaluator: check_entry_signal.  priceOk is the outcome of the    *)
(* get_latest_price call calculate_rsi makes for its log line: when it     *)
(* fails the format of None raises, calculate_rsi returns None and the     *)
(* signal is False.  A comparison with NaN is False.                       *)
(***************************************************************************)
\* the entry conditions on the frame calculate_rsi returned for the bars c:
\* column rsi, << >> when it returned None
EntryConditions(c, rsi) ==
  LET n == Len(c)
      current_rsi == rsi[n]
      current_rsi_ma == RSI_MA(rsi)[n]
      prev_rsi == rsi[n - 1]
      current_roc == ROC(c, n)
  IN  /\ rsi # << >>
      /\ FGreater(current_rsi, FOfInt(RsiThreshold))
      /\ FGreater(current_rsi, current_rsi_ma)
      /\ FGreater(current_rsi, prev_rsi)
      /\ FGreater(current_roc, Zero)

CheckEntrySignal(c, priceOk) ==
  Only({EntryConditions(c, rsi) : rsi \in {CalculateRsi(c, priceOk)}})

(***************************************************************************)
(* Position sizer: the arithmetic of calculate_position_size, on a buying  *)
(* power and a price in cents.                                             *)
(***************************************************************************)
\* int(buying_power * 0.05 / current_price)
CalculatedSize(bp, price) ==
  FTrunc(FDiv(FMul(FOfRatio(bp, 100), FOfRatio(RiskPercent, 100)),
              FOfRatio(price, 100)))

\* max(1, position_size)
PositionSize(bp, price) == Max(1, CalculatedSize(bp, price))

(***************************************************************************)
(* State.                                                                  *)
(***************************************************************************)
VARIABLES
  pc,               \* where run_strategy (and the call it is in) stands
  orders,           \* the brokerage's orders, in submission order; id = index
  active_positions, \* self.active_positions: {} or {Position of the symbol}
  data,             \* bars of this iteration: index into Series, 0 = None
  current_price,    \* local current_price (cents), None when unavailable
  current_qty,      \* local current_qty, what check_position returned
  qty,              \* local qty of place_trailing_stop_order
  entry_id,         \* entry_order.id of this attempt, 0 = none
  stop_id,          \* trailing_stop_order.id of this attempt, 0 = none
  elapsed,          \* time.time() - start_time in wait_for_order_fill
  pending,          \* seconds still to pass before the next loop test
  sleep_time,       \* argument of the time.sleep that ends the iteration
  wait_res,         \* what wait_for_order_fill returned: none / order / null
  result,           \* what place_trailing_stop_order returned: none/null/pair
  \* history of the iteration, for the properties
  reported,         \* answer of the last get_position: None = raised
  next_open_in,     \* next_open - current_time of a closed clock, seconds
  sampled_at,       \* elapsed time of the last status query
  seen_status,      \* status the last status query returned
  fill_at,          \* whole seconds elapsed when the awaited order filled
  ap_before,        \* active_positions when the iteration began
  orders_before,    \* number of orders when the entry attempt began
  failed,           \* last call that failed in this iteration
  interrupted,      \* a KeyboardInterrupt has been delivered
  orders_at_int,    \* number of orders when it was delivered
  market_open,      \* clock.is_open of this iteration: none / yes / no
  loop_price,       \* what get_latest_price returned to the loop
  loop_qty,         \* what check_position returned to the loop, None: unread
  entry_signal,     \* what check_entry_signal returned: none / yes / no
  orders_start,     \* number of orders when the iteration began
  \* one call of a function of the bot on its own
  fn,               \* the function called, none in run_strategy
  bars,             \* closes of the bars passed to check_entry_signal
  quote,            \* what get_latest_price answers inside the call
  buying_power,     \* account.buying_power (cents), None: get_account fails
  returned,         \* the call has returned
  api_calls,        \* brokerage calls the call has made
  frame,            \* column RSI of the frame calculate_rsi returned
  signal,           \* what check_entry_signal returned
  position_size     \* what calculate_position_size returned

vars == << pc, orders, active_positions, data, current_price, current_qty,
           qty, entry_id, stop_id, elapsed, pending, sleep_time, wait_res,
           result, reported, next_open_in, sampled_at, seen_status, fill_at,
           ap_before, orders_before, failed, interrupted, orders_at_int,
           market_open, loop_price, loop_qty, entry_signal, orders_start,
           fn, bars, quote, buying_power, returned, api_calls, frame,
           signal, position_size >>

loopLocals == << data, current_price, current_qty, sleep_time, reported,
                 next_open_in >>
waitLocals == << elapsed, pending, sampled_at, seen_status, fill_at,
                 wait_res >>
attemptLocals == << qty, entry_id, stop_id, result, ap_before,
                    orders_before >>
interruptVars == << interrupted, orders_at_int >>
loopHistory == << market_open, loop_price, loop_qty, entry_signal,
                 orders_start >>
engineVars == << fn, bars, quote, buying_power, returned, api_calls, frame,
                 signal, position_size >>

Terminal == {"canceled", "expired", "rejected"}

\* net quantity held at the brokerage: filled buys less filled sells
RECURSIVE NetFilled(_, _)
NetFilled(os, n) ==
  IF n = 0 THEN 0
  ELSE NetFilled(os, n - 1) +
       (IF os[n].status # "filled" THEN 0
        ELSE IF os[n].side = "buy" THEN os[n].qty ELSE 0 - os[n].qty)

PositionQty == NetFilled(orders, Len(orders))

\* entry orders submitted so far
Entries == Cardinality({i \in 1..Len(orders) : orders[i].side = "buy"})

\* what api.get_position may answer: it raises when nothing is held, and
\* like any call it may fail
PositionReports == {None} \cup (IF PositionQty > 0 THEN {PositionQty} ELSE {})

\* no call of a function on its own is under way
EngineIdle ==
  /\ fn = "none"
  /\ bars = << >>
  /\ quote = None
  /\ buying_power = None
  /\ returned = FALSE
  /\ api_calls = 0
  /\ frame = << >>
  /\ signal = FALSE
  /\ position_size = 0

\* the bot after its construction, run_strategy about to start
BotInit ==
  /\ pc = "clock"
  /\ orders = << >>
  /\ active_positions = {}
  /\ data = 0
  /\ current_price = None
  /\ current_qty = 0
  /\ qty = 0
  /\ entry_id = 0
  /\ stop_id = 0
  /\ elapsed = 0
  /\ pending = 0
  /\ sleep_time = 0
  /\ wait_res = "none"
  /\ result = "none"
  /\ reported = None
  /\ next_open_in = None
  /\ sampled_at = None
  /\ seen_status = "none"
  /\ fill_at = None
  /\ ap_before = {}
  /\ orders_before = 0
  /\ failed = "none"
  /\ interrupted = FALSE
  /\ orders_at_int = 0
  /\ market_open = "none"
  /\ loop_price = None
  /\ loop_qty = None
  /\ entry_signal = "none"
  /\ orders_start = 0

Init == BotInit /\ EngineIdle

(***************************************************************************)
(* The brokerage.                                                          *)
(***************************************************************************)
\* wait_for_order_fill is running for order i
Waiting(i) == i = entry_id /\ pc \in {"w_test", "w_query", "w_sleep"}

\* a market buy fills at some average price
BrokerFill(i, p) ==
  /\ orders[i].side = "buy"
  /\ orders[i].status = "new"
  /\ orders' = [orders EXCEPT ![i].status = "filled",
                              ![i].filled_avg_price = p,
                              ![i].late = ~Waiting(i)]
  /\ fill_at' = IF Waiting(i) THEN elapsed ELSE fill_at
  /\ UNCHANGED << pc, active_positions, loopLocals, attemptLocals, elapsed,
                  pending, sampled_at, seen_status, wait_res, failed,
                  interruptVars, loopHistory, engineVars >>

\* a buy that has not filled is canceled, expires or is rejected
BrokerEnd(i, st) ==
  /\ orders[i].side = "buy"
  /\ orders[i].status = "new"
  /\ orders' = [orders EXCEPT ![i].status = st]
  /\ UNCHANGED << pc, active_positions, loopLocals, attemptLocals,
                  waitLocals, failed, interruptVars, loopHistory,
                  engineVars >>

\* a trailing stop triggers and sells
BrokerStop(i) ==
  /\ orders[i].side = "sell"
  /\ orders[i].status = "new"
  /\ orders' = [orders EXCEPT ![i].status = "filled"]
  /\ UNCHANGED << pc, active_positions, loopLocals, attemptLocals,
                  waitLocals, failed, interruptVars, loopHistory,
                  engineVars >>

Broker ==
  \E i \in 1..Len(orders) :
    \/ \E p \in FillPrices : BrokerFill(i, p)
    \/ \E st \in Terminal : BrokerEnd(i, st)
    \/ BrokerStop(i)

(***************************************************************************)
(* Decisions of the code.                                                  *)
(***************************************************************************)
\* min(check_interval, (next_open - current_time).seconds): .seconds is the
\* seconds field of the timedelta, 0..86399, without its days
SleepTimeClosed(d) == Min(CheckInterval, d % SecondsPerDay)

\* check_position: the quantity reported, and 0 whenever anything is raised
CheckPosition(rep) == IF rep = None THEN 0 ELSE rep

\* mutant: the test is off by one share
AlreadyHoldingMutant(q) == q > 1

\* if current_qty > 0: return None
AlreadyHolding(q) == q > 0

\* mutant: the loop looks for an entry whatever it holds
NoPositionMutant(q) == q >= 0

\* if current_qty == 0: look for an entry
NoPosition(q) == q = 0

\* data is None or len(data) < 20
InsufficientData(s) == s = 0 \/ Len(Series[s]) < MinBars

\* calculate_position_size: 1 when the account call fails or no price
CalculatePositionSize(bp, p) ==
  IF bp = None \/ p = None THEN 1 ELSE PositionSize(bp, p)

\* mutant: an order merely accepted counts as filled
IsFilledMutant(st) == st \in {"filled", "new"}

\* order.status == 'filled'
IsFilled(st) == st = "filled"

\* order.status in ['canceled', 'expired', 'rejected']
IsTerminal(st) == st \in Terminal

\* mutant: the loop runs one second too long
LoopConditionMutant(el, timeout) == el <= timeout

\* while time.time() - start_time < timeout
LoopCondition(el, timeout) == el < timeout

\* trail_percent = self.trailing_stop_percent * 100, both in hundredths
TrailPercent(fraction) == fraction * 100

\* late: the order filled when the wait for it had ended (history)
BuyOrder(q) ==
  [side |-> "buy", qty |-> q, status |-> "new", filled_avg_price |-> None,
   trail_percent |-> None, entry |-> 0, late |-> FALSE]

\* entry: the buy order of the attempt that submits the stop (history)
StopOrder(q, e) ==
  [side |-> "sell", qty |-> q, status |-> "new", filled_avg_price |-> None,
   trail_percent |-> TrailPercent(TrailingStopHundredths), entry |-> e,
   late |-> FALSE]

\* mutant: the quoted price is recorded as the entry price
PositionMutant(q, filled_price) ==
  [qty |-> q, entry_price |-> current_price,
   stop_percent |-> TrailingStopHundredths]

\* self.active_positions[symbol] = {...}
Position(q, filled_price) ==
  [qty |-> q, entry_price |-> filled_price,
   stop_percent |-> TrailingStopHundredths]

(***************************************************************************)
(* run_strategy: one action per call and outcome.                          *)
(***************************************************************************)
\* time.sleep(t) at the end of the iteration, then the next one
GoSleep(t) == pc' = "sleep" /\ sleep_time' = t

\* place_trailing_stop_order returns None; the loop sleeps check_interval
ReturnNone == result' = "null" /\ GoSleep(CheckInterval)

\* mutant: the handler of the loop re-raises
ClockFailMutant ==
  /\ pc = "clock"
  /\ pc' = "crashed"
  /\ failed' = "clock"
  /\ UNCHANGED << orders, active_positions, data, current_price, current_qty,
                  sleep_time, reported, next_open_in, attemptLocals,
                  waitLocals, interruptVars, loopHistory, engineVars >>

\* api.get_clock() raises: the handler of the loop logs and backs off
ClockFail ==
  /\ pc = "clock"
  /\ pc' = "backoff"
  /\ sleep_time' = BackoffSleep
  /\ failed' = "clock"
  /\ UNCHANGED << orders, active_positions, data, current_price, current_qty,
                  reported, next_open_in, attemptLocals, waitLocals,
                  interruptVars, loopHistory, engineVars >>

\* the market is closed: sleep, continue
ClockClosed(d) ==
  /\ pc = "clock"
  /\ next_open_in' = d
  /\ market_open' = "no"
  /\ GoSleep(SleepTimeClosed(d))
  /\ UNCHANGED << orders, active_positions, data, current_price, current_qty,
                  reported, attemptLocals, waitLocals, failed, interruptVars,
                  loop_price, loop_qty, entry_signal, orders_start,
                  engineVars >>

ClockOpen ==
  /\ pc = "clock"
  /\ pc' = "bars"
  /\ market_open' = "yes"
  /\ UNCHANGED << orders, active_positions, loopLocals, attemptLocals,
                  waitLocals, failed, interruptVars, loop_price, loop_qty,
                  entry_signal, orders_start, engineVars >>

\* get_historical_data returns None: get_bars raises or is empty, or the
\* get_latest_price of its log line fails and the format of None raises
GetBarsFail ==
  /\ pc = "bars"
  /\ data' = 0
  /\ failed' = "bars"
  /\ GoSleep(DataSleep)
  /\ UNCHANGED << orders, active_positions, current_price, current_qty,
                  reported, next_open_in, attemptLocals, waitLocals,
                  interruptVars, loopHistory, engineVars >>

\* get_historical_data returns series s
GetBars(s) ==
  /\ pc = "bars"
  /\ data' = s
  /\ IF InsufficientData(s) THEN GoSleep(DataSleep)
     ELSE pc' = "price" /\ sleep_time' = sleep_time
  /\ UNCHANGED << orders, active_positions, current_price, current_qty,
                  reported, next_open_in, attemptLocals, waitLocals, failed,
                  interruptVars, loopHistory, engineVars >>

\* current_price = self.get_latest_price(symbol)
GetPrice(p) ==
  /\ pc = "price"
  /\ current_price' = p
  /\ loop_price' = p
  /\ IF p = None THEN failed' = "price" /\ GoSleep(PriceSleep)
     ELSE failed' = failed /\ pc' = "position" /\ sleep_time' = sleep_time
  /\ UNCHANGED << orders, active_positions, data, current_qty, reported,
                  next_open_in, attemptLocals, waitLocals, interruptVars,
                  market_open, loop_qty, entry_signal, orders_start,
                  engineVars >>

\* current_qty, current_value = self.check_position(symbol), then the branch
LoopCheckPosition(rep) ==
  /\ pc = "position"
  /\ reported' = rep
  /\ current_qty' = CheckPosition(rep)
  /\ loop_qty' = current_qty'
  /\ failed' = IF rep = None /\ PositionQty > 0 THEN "position" ELSE failed
  /\ pc' = IF NoPosition(current_qty') THEN "signal" ELSE "report"
  /\ UNCHANGED << orders, active_positions, data, current_price, sleep_time,
                  next_open_in, attemptLocals, waitLocals, interruptVars,
                  market_open, loop_price, entry_signal, orders_start,
                  engineVars >>

\* check_entry_signal on each series of bars the loop can fetch
SeriesSignal ==
  [s \in 1..Len(Series) |->
     [ok \in BOOLEAN |-> CheckEntrySignal(Series[s], ok)]]

\* check_entry_signal(data); priceOk: the quote inside calculate_rsi
EntrySignal(priceOk) ==
  /\ pc = "signal"
  /\ failed' = IF priceOk THEN failed ELSE "signal_price"
  /\ entry_signal' = IF SeriesSignal[data][priceOk] THEN "yes" ELSE "no"
  /\ IF SeriesSignal[data][priceOk]
     THEN pc' = "p_check" /\ ap_before' = active_positions
          /\ orders_before' = Len(orders) /\ sleep_time' = sleep_time
     ELSE GoSleep(CheckInterval) /\ ap_before' = ap_before
          /\ orders_before' = orders_before
  /\ UNCHANGED << orders, active_positions, data, current_price, current_qty,
                  reported, next_open_in, qty, entry_id, stop_id, result,
                  waitLocals, interruptVars, market_open, loop_price,
                  loop_qty, orders_start, engineVars >>

\* mutant: the report drops the entry it has read
ReportMutant ==
  /\ pc = "report"
  /\ active_positions' = {}
  /\ GoSleep(CheckInterval)
  /\ UNCHANGED << orders, data, current_price, current_qty, reported,
                  next_open_in, attemptLocals, waitLocals, failed,
                  interruptVars, loopHistory, engineVars >>

\* the position report of the loop reads active_positions and logs
Report ==
  /\ pc = "report"
  /\ GoSleep(CheckInterval)
  /\ UNCHANGED << orders, active_positions, data, current_price, current_qty,
                  reported, next_open_in, attemptLocals, waitLocals, failed,
                  interruptVars, loopHistory, engineVars >>

\* time.sleep(sleep_time) returns: the next iteration starts
StartIteration ==
  /\ pc' = "clock"
  /\ data' = 0
  /\ current_price' = None
  /\ current_qty' = 0
  /\ sleep_time' = 0
  /\ reported' = None
  /\ next_open_in' = None
  /\ qty' = 0
  /\ entry_id' = 0
  /\ stop_id' = 0
  /\ result' = "none"
  /\ ap_before' = active_positions
  /\ orders_before' = 0
  /\ elapsed' = 0
  /\ pending' = 0
  /\ sampled_at' = None
  /\ seen_status' = "none"
  /\ fill_at' = None
  /\ wait_res' = "none"
  /\ failed' = "none"
  /\ market_open' = "none"
  /\ loop_price' = None
  /\ loop_qty' = None
  /\ entry_signal' = "none"
  /\ orders_start' = Len(orders)

Sleep ==
  /\ pc = "sleep"
  /\ StartIteration
  /\ UNCHANGED << orders, active_positions, interruptVars, engineVars >>

\* time.sleep(300) of the handler returns
Backoff ==
  /\ pc = "backoff"
  /\ StartIteration
  /\ UNCHANGED << orders, active_positions, interruptVars, engineVars >>

(***************************************************************************)
(* place_trailing_stop_order and wait_for_order_fill.                      *)
(***************************************************************************)
\* current_qty, current_value = self.check_position(symbol)
PlaceCheckPosition(rep) ==
  /\ pc = "p_check"
  /\ reported' = rep
  /\ current_qty' = CheckPosition(rep)
  /\ failed' = IF rep = None /\ PositionQty > 0 THEN "position" ELSE failed
  /\ IF AlreadyHolding(current_qty') THEN ReturnNone
     ELSE pc' = "p_size" /\ result' = result /\ sleep_time' = sleep_time
  /\ UNCHANGED << orders, active_positions, data, current_price,
                  next_open_in, qty, entry_id, stop_id, ap_before,
                  orders_before, waitLocals, interruptVars, loopHistory,
                  engineVars >>

\* qty = self.calculate_position_size(symbol)
Size(bp, p) ==
  /\ pc = "p_size"
  /\ qty' = CalculatePositionSize(bp, p)
  /\ failed' = IF bp = None THEN "account"
               ELSE IF p = None THEN "size_price" ELSE failed
  /\ pc' = "p_price"
  /\ UNCHANGED << orders, active_positions, loopLocals, entry_id, stop_id,
                  result, ap_before, orders_before, waitLocals,
                  interruptVars, loopHistory, engineVars >>

\* current_price = self.get_latest_price(symbol); None: return None
PlacePrice(p) ==
  /\ pc = "p_price"
  /\ current_price' = p
  /\ IF p = None THEN failed' = "place_price" /\ ReturnNone
     ELSE failed' = failed /\ pc' = "p_buy" /\ result' = result
          /\ sleep_time' = sleep_time
  /\ UNCHANGED << orders, active_positions, data, current_qty, reported,
                  next_open_in, qty, entry_id, stop_id, ap_before,
                  orders_before, waitLocals, interruptVars, loopHistory,
                  engineVars >>

\* entry_order = self.api.submit_order(side='buy', type='market', qty=qty)
SubmitBuy ==
  /\ pc = "p_buy"
  /\ Entries < MaxEntries
  /\ orders' = Append(orders, BuyOrder(qty))
  /\ entry_id' = Len(orders) + 1
  /\ elapsed' = 0
  /\ pc' = "w_test"
  /\ UNCHANGED << active_positions, loopLocals, qty, stop_id, result,
                  ap_before, orders_before, pending, sampled_at, seen_status,
                  fill_at, wait_res, failed, interruptVars, loopHistory,
                  engineVars >>

\* submit_order raises: caught, return None
SubmitBuyFail ==
  /\ pc = "p_buy"
  /\ failed' = "buy"
  /\ ReturnNone
  /\ UNCHANGED << orders, active_positions, data, current_price, current_qty,
                  reported, next_open_in, qty, entry_id, stop_id, ap_before,
                  orders_before, waitLocals, interruptVars, loopHistory,
                  engineVars >>

\* the test of the while loop; past the timeout the wait returns None
WaitTest ==
  /\ pc = "w_test"
  /\ IF LoopCondition(elapsed, OrderWaitTimeout)
     THEN pc' = "w_query" /\ wait_res' = wait_res /\ result' = result
          /\ sleep_time' = sleep_time /\ failed' = failed
     ELSE wait_res' = "null" /\ failed' = "timeout" /\ ReturnNone
  /\ UNCHANGED << orders, active_positions, data, current_price, current_qty,
                  reported, next_open_in, qty, entry_id, stop_id, ap_before,
                  orders_before, elapsed, pending, sampled_at, seen_status,
                  fill_at, interruptVars, loopHistory, engineVars >>

\* order = self.api.get_order(order_id) answers after d seconds
GetOrder(d) ==
  /\ pc = "w_query"
  /\ sampled_at' = elapsed
  /\ seen_status' = orders[entry_id].status
  /\ IF IsFilled(seen_status')
     THEN wait_res' = "order" /\ pc' = "p_stop" /\ pending' = pending
          /\ result' = result /\ sleep_time' = sleep_time
          /\ failed' = failed
     ELSE IF IsTerminal(seen_status')
     THEN wait_res' = "null" /\ pending' = pending /\ failed' = "terminal"
          /\ ReturnNone
     ELSE wait_res' = wait_res /\ pc' = "w_sleep" /\ pending' = d + PollSleep
          /\ result' = result /\ sleep_time' = sleep_time
          /\ failed' = failed
  /\ UNCHANGED << orders, active_positions, data, current_price, current_qty,
                  reported, next_open_in, qty, entry_id, stop_id, ap_before,
                  orders_before, elapsed, fill_at, interruptVars,
                  loopHistory, engineVars >>

\* get_order raises: caught inside the loop, the wait returns None
GetOrderFail ==
  /\ pc = "w_query"
  /\ wait_res' = "null"
  /\ failed' = "status"
  /\ ReturnNone
  /\ UNCHANGED << orders, active_positions, data, current_price, current_qty,
                  reported, next_open_in, qty, entry_id, stop_id, ap_before,
                  orders_before, elapsed, pending, sampled_at, seen_status,
                  fill_at, interruptVars, loopHistory, engineVars >>

\* mutant: the start of the wait is taken anew in every round of the loop
TickMutant ==
  /\ pc = "w_sleep"
  /\ pending' = pending - 1
  /\ pc' = IF pending' = 0 THEN "w_test" ELSE "w_sleep"
  /\ UNCHANGED << orders, active_positions, loopLocals, attemptLocals,
                  elapsed, sampled_at, seen_status, fill_at, wait_res, failed,
                  interruptVars, loopHistory, engineVars >>

\* a second of the answer's latency or of time.sleep(1) passes
Tick ==
  /\ pc = "w_sleep"
  /\ elapsed' = elapsed + 1
  /\ pending' = pending - 1
  /\ pc' = IF pending' = 0 THEN "w_test" ELSE "w_sleep"
  /\ UNCHANGED << orders, active_positions, loopLocals, attemptLocals,
                  sampled_at, seen_status, fill_at, wait_res, failed,
                  interruptVars, loopHistory, engineVars >>

\* the trailing stop is accepted; the position is tracked; return the pair
SubmitStop ==
  /\ pc = "p_stop"
  /\ orders' = Append(orders, StopOrder(qty, entry_id))
  /\ stop_id' = Len(orders) + 1
  /\ active_positions' = {Position(qty, orders[entry_id].filled_avg_price)}
  /\ result' = "pair"
  /\ GoSleep(CheckInterval)
  /\ UNCHANGED << data, current_price, current_qty, reported, next_open_in,
                  qty, entry_id, ap_before, orders_before, waitLocals,
                  failed, interruptVars, loopHistory, engineVars >>

\* mutant: the position is tracked before the stop is submitted
SubmitStopFailMutant ==
  /\ pc = "p_stop"
  /\ failed' = "stop"
  /\ active_positions' = {Position(qty, orders[entry_id].filled_avg_price)}
  /\ ReturnNone
  /\ UNCHANGED << orders, data, current_price, current_qty, reported,
                  next_open_in, qty, entry_id, stop_id, ap_before,
                  orders_before, waitLocals, interruptVars, loopHistory,
                  engineVars >>

\* the submission of the trailing stop raises: caught, return None
SubmitStopFail ==
  /\ pc = "p_stop"
  /\ failed' = "stop"
  /\ ReturnNone
  /\ UNCHANGED << orders, active_positions, data, current_price, current_qty,
                  reported, next_open_in, qty, entry_id, stop_id, ap_before,
                  orders_before, waitLocals, interruptVars, loopHistory,
                  engineVars >>

(***************************************************************************)
(* The operator's interrupt.  KeyboardInterrupt is no Exception: it passes *)
(* every "except Exception" up to "except KeyboardInterrupt: break" of the *)
(* loop, except inside check_position, whose bare "except:" catches it and *)
(* returns (0, 0), and inside the loop's own handler, where it leaves      *)
(* run_strategy as an exception.  It can arrive inside a step: between the *)
(* two brokerage calls of check_position, and between the submission of    *)
(* the stop and the write of active_positions.                             *)
(***************************************************************************)
\* the interrupt arrives inside check_position: in get_position, which has
\* not answered (rep = None), or in the quote that follows its answer rep;
\* the bare except returns (0, 0) and the caller goes on
InterruptCaught(rep) ==
  /\ pc \in {"position", "p_check"}
  /\ interrupted' = TRUE
  /\ orders_at_int' = Len(orders)
  /\ reported' = rep
  /\ current_qty' = 0
  /\ loop_qty' = IF pc = "position" THEN 0 ELSE loop_qty
  /\ pc' = IF pc = "position" THEN "signal" ELSE "p_size"
  /\ UNCHANGED << orders, active_positions, data, current_price, sleep_time,
                  next_open_in, attemptLocals, waitLocals, failed,
                  market_open, loop_price, entry_signal, orders_start,
                  engineVars >>

\* the interrupt arrives after submit_order of the stop has returned and
\* before the position is tracked: the stop is in the book, the loop breaks
InterruptAfterStop ==
  /\ pc = "p_stop"
  /\ interrupted' = TRUE
  /\ orders' = Append(orders, StopOrder(qty, entry_id))
  /\ stop_id' = Len(orders) + 1
  /\ orders_at_int' = Len(orders) + 1
  /\ pc' = "stopped"
  /\ UNCHANGED << active_positions, loopLocals, qty, entry_id, result,
                  ap_before, orders_before, waitLocals, failed, loopHistory,
                  engineVars >>

\* the interrupt arrives anywhere else: the loop breaks, or, inside the
\* handler of the loop, run_strategy ends with the exception
InterruptBreak ==
  /\ pc \notin {"stopped", "crashed"}
  /\ interrupted' = TRUE
  /\ orders_at_int' = Len(orders)
  /\ pc' = IF pc = "backoff" THEN "crashed" ELSE "stopped"
  /\ UNCHANGED << orders, active_positions, loopLocals, attemptLocals,
                  waitLocals, failed, loopHistory, engineVars >>

Interrupt ==
  \/ \E rep \in PositionReports : InterruptCaught(rep)
  \/ InterruptAfterStop
  \/ InterruptBreak

(***************************************************************************)
(* Specifications.                                                         *)
(***************************************************************************)
Bot ==
  \/ ClockFail
  \/ \E d \in NextOpenDeltas : ClockClosed(d)
  \/ ClockOpen
  \/ GetBarsFail
  \/ \E s \in 1..Len(Series) : GetBars(s)
  \/ \E p \in LatestPrices \cup {None} : GetPrice(p)
  \/ \E rep \in PositionReports : LoopCheckPosition(rep)
  \/ \E ok \in BOOLEAN : EntrySignal(ok)
  \/ Report
  \/ Sleep
  \/ Backoff
  \/ \E rep \in PositionReports : PlaceCheckPosition(rep)
  \/ \E bp \in BuyingPowers \cup {None}, p \in LatestPrices \cup {None} :
       Size(bp, p)
  \/ \E p \in LatestPrices \cup {None} : PlacePrice(p)
  \/ SubmitBuy
  \/ SubmitBuyFail
  \/ WaitTest
  \/ \E d \in 0..MaxLatency : GetOrder(d)
  \/ GetOrderFail
  \/ Tick
  \/ SubmitStop
  \/ SubmitStopFail

Next == Bot \/ Broker

\* the loop against the brokerage, no interrupt delivered
Spec == Init /\ [][Next]_vars

NextInterrupt == Next \/ Interrupt

\* the same with an operator who may interrupt at any point
SpecInterrupt == Init /\ [][NextInterrupt]_vars

\* every call returns or fails and time advances: the bot keeps stepping
FairSpec == Init /\ [][Next]_vars /\ WF_vars(Bot)

(***************************************************************************)
(* One call of check_entry_signal or of calculate_position_size on its     *)
(* own: the inputs are drawn at the start, the action is the call.         *)
(***************************************************************************)
Flat28 == [i \in 1..28 |-> 100]
Linear28 == [i \in 1..28 |-> 99 + i]
Rally28 == << 115, 114, 113, 112, 111 >> \o Rally23
Slump28 == [i \in 1..28 |-> IF i <= 14 THEN 99 + i ELSE 128 - i]
Zigzag28 == [i \in 1..28 |-> 100 + (i % 2) + (i \div 6)]
Wave28 == [i \in 1..28 |-> 100 + (((i * 5) % 11) % 3) + (i \div 3)]
Stairs28 ==
  [i \in 1..28 |-> 100 + (i \div 2) - (IF i % 5 = 0 THEN 1 ELSE 0)]
Templates ==
  << Flat28, Linear28, Rally28, Slump28, Zigzag28, Wave28, Stairs28 >>

\* every run of consecutive bars of the series c
Runs(c) == UNION {{SubSeq(c, a, b) : a \in 1..b} : b \in 1..Len(c)}

\* the runs of the templates, and no bars at all
EngineBars ==
  {<< >>} \cup UNION {Runs(Templates[t]) : t \in 1..Len(Templates)}

EnginePrices == {108, 130, 135, 12000, 12050}
EngineBuyingPowers ==
  {0, 8100, 10000, 18200, 32400, 32500, 999999, 1000000, 2000000}

EngineInit ==
  /\ BotInit
  /\ returned = FALSE
  /\ api_calls = 0
  /\ frame = << >>
  /\ signal = FALSE
  /\ position_size = 0
  /\ \/ /\ fn = "check_entry_signal"
        /\ bars \in EngineBars
        /\ quote \in LatestPrices \cup {None}
        /\ buying_power = None
     \/ /\ fn = "calculate_position_size"
        /\ bars = << >>
        /\ quote \in EnginePrices \cup {None}
        /\ buying_power \in EngineBuyingPowers \cup {None}

botVars == << pc, orders, active_positions, loopLocals, attemptLocals,
             waitLocals, failed, interruptVars, loopHistory >>

\* check_entry_signal(data): calculate_rsi asks for a quote once the frame
\* has period rows
CallCheckEntrySignal ==
  /\ fn = "check_entry_signal"
  /\ ~returned
  /\ returned' = TRUE
  /\ api_calls' = IF Len(bars) >= Period THEN 1 ELSE 0
  /\ frame' = CalculateRsi(bars, quote # None)
  /\ signal' = EntryConditions(bars, frame')
  /\ UNCHANGED << botVars, fn, bars, quote, buying_power, position_size >>

\* calculate_position_size(symbol): get_account, then get_latest_price
CallCalculatePositionSize ==
  /\ fn = "calculate_position_size"
  /\ ~returned
  /\ returned' = TRUE
  /\ api_calls' = IF buying_power = None THEN 1 ELSE 2
  /\ position_size' = CalculatePositionSize(buying_power, quote)
  /\ UNCHANGED << botVars, fn, bars, quote, buying_power, frame, signal >>

EngineNext == CallCheckEntrySignal \/ CallCalculatePositionSize

\* the two functions called on their own, on every input above
EngineSpec == EngineInit /\ [][EngineNext]_vars

(***************************************************************************)
(* Properties.                                                             *)
(***************************************************************************)
\* the stop of entry i has sold: the position it opened is closed
Closed(i) ==
  \E j \in 1..Len(orders) :
    orders[j].side = "sell" /\ orders[j].entry = i
    /\ orders[j].status = "filled"

\* buys submitted and still outstanding, or filled and not yet closed
OpenEntries ==
  {i \in 1..Len(orders) :
     /\ orders[i].side = "buy"
     /\ \/ orders[i].status = "new"
        \/ orders[i].status = "filled" /\ ~Closed(i)}

\* the entry attempt of this iteration is past its position check
PastPlaceCheck ==
  \/ pc \in {"p_size", "p_price", "p_buy", "w_test", "w_query", "w_sleep",
             "p_stop"}
  \/ pc = "sleep" /\ result # "none"

\* wait_for_order_fill of this iteration has returned
WaitEnded == wait_res # "none"

\* C1: at most one entry (buy) order of the bot is open at a time, open
\* meaning outstanding at the brokerage or filled and not yet closed.
C1_AtMostOneOpenEntry == Cardinality(OpenEntries) <= 1

\* C2: when get_position reports a quantity > 0 to the position check of
\* place_trailing_stop_order, the call has returned None to the loop (which
\* sleeps check_interval), has submitted neither a buy nor a stop, and has
\* left active_positions as it was.
C2_NoEntryWhileHolding ==
  (PastPlaceCheck /\ reported # None /\ reported > 0) =>
    /\ pc = "sleep"
    /\ result = "null"
    /\ entry_id = 0
    /\ stop_id = 0
    /\ Len(orders) = orders_before
    /\ active_positions = ap_before

\* C2 witness: the entry attempt was refused on a reported holding of 4
C2_Witness ==
  /\ pc = "sleep"
  /\ result = "null"
  /\ reported = 4
  /\ entry_id = 0

\* C3: every trailing-stop sell follows a buy of the same attempt that was
\* observed filled, has that buy's quantity and trail percent = fraction x
\* 100; a wait that ends without a fill returns null and no stop follows.
C3_StopOnlyAfterFill ==
  /\ \A i \in 1..Len(orders) :
       orders[i].side = "sell" =>
         LET e == orders[i].entry
         IN  /\ e \in 1..(i - 1)
             /\ orders[e].side = "buy"
             /\ orders[e].status = "filled"
             /\ orders[i].qty = orders[e].qty
             /\ orders[i].trail_percent = TrailingStopHundredths * 100
  /\ stop_id # 0 =>
       /\ wait_res = "order"
       /\ seen_status = "filled"
       /\ orders[stop_id].side = "sell"
       /\ orders[stop_id].entry = entry_id
  /\ (WaitEnded /\ seen_status # "filled") =>
       wait_res = "null" /\ stop_id = 0 /\ pc = "sleep"
  /\ wait_res = "null" => stop_id = 0 /\ result = "null"

\* C3 witness: a stop of 4 shares was submitted after the observed fill
C3_Witness ==
  /\ stop_id # 0
  /\ orders[stop_id].qty = 4
  /\ orders[stop_id].trail_percent = 500
  /\ orders[entry_id].status = "filled"

\* C4: if the awaited order becomes filled N seconds after the wait starts,
\* 0 <= N < timeout, and no status query fails, the wait returns the order.
C4_FillBeforeTimeoutReturned ==
  (WaitEnded /\ fill_at # None /\ fill_at < OrderWaitTimeout
   /\ failed # "status") => wait_res = "order"

\* the statement of C5 before amendment: the wait returns null only on a
\* canceled, expired or rejected status or once the timeout has elapsed
C5_NullOnlyTerminalOrTimeout ==
  wait_res = "null" =>
    seen_status \in Terminal \/ elapsed >= OrderWaitTimeout

\* what the states of the wait say about its outcome
WaitOutcomes ==
  /\ wait_res = "order" => seen_status = "filled"
  /\ wait_res = "null" =>
       \/ seen_status \in Terminal
       \/ elapsed >= OrderWaitTimeout
       \/ failed = "status"
  /\ pc \in {"w_test", "w_query", "w_sleep"} =>
       /\ wait_res = "none"
       /\ seen_status \in {"none", "new"}
       /\ failed # "status"
  /\ pc = "w_query" => elapsed < OrderWaitTimeout

\* the step by which the wait returns null leaves every order as it is
NullLeavesOrders == (wait_res = "none" /\ wait_res' = "null") => orders' = orders

\* C5 (amended): the wait polls until the status is filled (returns the
\* order), is canceled, expired or rejected (null), the timeout has elapsed
\* (null) or a status query raises (null); it returns null for no other
\* reason, and returning null it leaves the order as it is at the brokerage.
C5_WaitOutcomes == []WaitOutcomes /\ [][NullLeavesOrders]_vars

\* C5 witness: the wait returned null on a failed status query, the order
\* still new and the timeout not reached
C5_Witness ==
  /\ wait_res = "null"
  /\ failed = "status"
  /\ seen_status = "new"
  /\ elapsed < OrderWaitTimeout
  /\ orders[entry_id].status = "new"

\* the steps at which an entry attempt can fail
AttemptFailures ==
  {"place_price", "buy", "timeout", "terminal", "status", "stop"}

\* C6: a Position is tracked only for a buy order that was confirmed
\* filled; when an attempt records it, its entry price is that order's
\* filled average price and its quantity the quantity of that buy order.
C6_TrackedOnlyAfterFill ==
  /\ \A pos \in active_positions :
       \E i \in 1..Len(orders) :
         /\ orders[i].side = "buy"
         /\ orders[i].status = "filled"
         /\ pos.entry_price = orders[i].filled_avg_price
         /\ pos.qty = orders[i].qty
  /\ (result = "pair" \/ active_positions # ap_before) =>
       /\ wait_res = "order"
       /\ seen_status = "filled"
       /\ orders[entry_id].side = "buy"
       /\ orders[entry_id].status = "filled"
       /\ active_positions =
            {[qty |-> orders[entry_id].qty,
              entry_price |-> orders[entry_id].filled_avg_price,
              stop_percent |-> TrailingStopHundredths]}
  /\ Cardinality(active_positions) <= 1

\* C6 witness: a fill at 120.50 of 4 shares quoted at 120.00 is tracked
C6_Witness ==
  /\ result = "pair"
  /\ current_price = 12000
  /\ active_positions =
       {[qty |-> 4, entry_price |-> 12050, stop_percent |-> 5]}

\* C7: when a step of an entry attempt fails, place_trailing_stop_order
\* has returned None to the loop without raising (the loop sleeps
\* check_interval and then starts over), active_positions is as it was
\* before the attempt, and the attempt has submitted at most the one buy:
\* nothing was retried and no order was added to cancel or undo it.
C7_FailedAttemptAbandoned ==
  (result = "null" /\ failed \in AttemptFailures) =>
    /\ pc = "sleep"
    /\ sleep_time = CheckInterval
    /\ active_positions = ap_before
    /\ stop_id = 0
    /\ Len(orders) = orders_before + (IF entry_id = 0 THEN 0 ELSE 1)
    /\ entry_id # 0 =>
         entry_id = Len(orders) /\ orders[entry_id].side = "buy"
    /\ failed \in {"place_price", "buy"} <=> entry_id = 0

\* C7 witness: the entry filled, the stop submission failed, nothing is
\* tracked and the position is held without a stop
C7_Witness ==
  /\ result = "null"
  /\ failed = "stop"
  /\ orders[entry_id].status = "filled"
  /\ PositionQty = 4
  /\ active_positions = {}

\* C8: once an interrupt has been delivered run_strategy has returned
\* through its KeyboardInterrupt handler, and no order was submitted since.
C8_InterruptStopsLoop ==
  interrupted => (pc = "stopped" /\ Len(orders) = orders_at_int)

\* the brokerage calls of an iteration that can fail
CallFailures ==
  {"clock", "bars", "price", "position", "signal_price", "account",
   "size_price", "place_price", "buy", "status", "stop"}

\* C9: no failure of a brokerage call ends run_strategy: after each one the
\* loop comes to a sleep (of the iteration or of the handler) and from the
\* sleep to the start of another iteration.
C9_FailureThenNextIteration ==
  /\ [](pc \notin {"stopped", "crashed"})
  /\ (failed \in CallFailures) ~> (pc \in {"sleep", "backoff"})
  /\ (pc \in {"sleep", "backoff"}) ~> (pc = "clock" /\ failed = "none")

\* C9 witness: a position is held, get_position failed in this iteration
\* and so did the submission of the buy that followed
C9_Witness ==
  /\ PositionQty > 0
  /\ reported = None
  /\ failed = "buy"
  /\ pc = "sleep"

\* C10: when the clock reports closed the loop sleeps exactly
\* min(check_interval, seconds until the next open).
C10_ClosedSleepIsMin ==
  (pc = "sleep" /\ next_open_in # None) =>
    sleep_time = Min(CheckInterval, next_open_in)

\* C11: run_strategy submits a buy order in an iteration only if in that
\* iteration the clock reported open, at least 20 bars were fetched, the
\* price was available, the position quantity was read as zero and the
\* entry signal was true; in every other iteration it submits no order.
C11_BuyOnlyAfterAllChecks ==
  (entry_id # 0 \/ stop_id # 0 \/ Len(orders) # orders_start) =>
    /\ market_open = "yes"
    /\ data # 0
    /\ Len(Series[data]) >= 20
    /\ loop_price # None
    /\ loop_qty = 0
    /\ entry_signal = "yes"

\* C11 witness: a buy was submitted in an iteration that passed the checks
C11_Witness ==
  /\ pc = "w_test"
  /\ Len(orders) = orders_start + 1
  /\ orders[entry_id].side = "buy"
  /\ market_open = "yes"
  /\ loop_qty = 0
  /\ entry_signal = "yes"

\* the four entry conditions on the latest two rows of the bars c, false when
\* an indicator they read is undefined
FourConditions(c) ==
  /\ Len(c) >= 2
  /\ Only({Only({/\ ~rsi[Len(c)].nan
                 /\ ~rsi[Len(c) - 1].nan
                 /\ ~rsi_ma[Len(c)].nan
                 /\ ~roc.nan
                 /\ FGreater(rsi[Len(c)], FOfInt(50))
                 /\ FGreater(rsi[Len(c)], rsi_ma[Len(c)])
                 /\ FGreater(rsi[Len(c)], rsi[Len(c) - 1])
                 /\ FGreater(roc, Zero) :
                   rsi_ma \in {RSI_MA(rsi)}, roc \in {ROC(c, Len(c))}}) :
             rsi \in {RSI(c)}})

\* C12: check_entry_signal returns true exactly when the indicators of the
\* latest two rows are defined and the four conditions hold on them (RSI >
\* threshold, RSI > its moving average, RSI > previous RSI, ROC > 0), and
\* false whenever an indicator is undefined.
C12_SignalIffFourConditions ==
  (fn = "check_entry_signal" /\ returned) => (signal <=> FourConditions(bars))

\* C13: calculate_rsi is a pure function of the bars: the call makes no
\* brokerage call, and the indicators and the decision for given bars are
\* the same whatever a brokerage call returns or fails with.
C13_IndicatorEngineIsPure ==
  (fn = "check_entry_signal" /\ returned) =>
    /\ api_calls = 0
    /\ frame = CalculateRsi(bars, TRUE)
    /\ signal = CheckEntrySignal(bars, TRUE)

\* C14: end to end, with 20 daily bars whose closes rise linearly the entry
\* signal is true; the size for buying power 10,000 at 120 is 4, a market
\* buy of 4 is submitted, and on its fill at 120.50 a trailing stop of 4 at
\* 5 percent is submitted and Position{qty 4, entry 120.50} is recorded.
C14_LinearBarsEnterFour ==
  /\ (data # 0 /\ entry_signal # "none" /\ failed = "none") =>
       (Series[data] = Linear20 => entry_signal = "yes")
  /\ (result = "pair" /\ qty = 4) =>
       /\ orders[entry_id].qty = 4
       /\ orders[stop_id].qty = 4
       /\ orders[stop_id].trail_percent = 500
       /\ active_positions =
            {[qty |-> 4, entry_price |-> orders[entry_id].filled_avg_price,
              stop_percent |-> 5]}

\* every close of c is the same
FlatSeries(c) == \A i \in 1..Len(c) : c[i] = c[1]

\* C15: for a flat close series of at least period + 1 bars the average
\* loss is 0, the epsilon is substituted and the RSI of every defined row
\* is exactly 100.
C15_FlatSeriesRsiIs100 ==
  (fn = "check_entry_signal" /\ returned /\ frame # << >>
   /\ FlatSeries(bars) /\ Len(bars) >= Period + 1) =>
    \A i \in Period..Len(bars) :
      /\ AvgLoss(bars)[i] = FOfRatio(1, EpsilonInverse)
      /\ FEq(frame[i], FOfInt(100))

\* C16: calculate_position_size returns max(1, floor(buying power x 0.05 /
\* price)) when the account and the price are available and 1 when either
\* is not; the result is at least 1 and, at a fixed price, does not
\* decrease when the buying power increases.
C16_SizeIsFloorOfFivePercent ==
  (fn = "calculate_position_size" /\ returned) =>
    /\ position_size =
         (IF buying_power = None \/ quote = None THEN 1
          ELSE Max(1, (buying_power * 5) \div (100 * quote)))
    /\ position_size >= 1
    /\ (buying_power # None /\ quote # None) =>
         \A b \in EngineBuyingPowers :
           b >= buying_power => PositionSize(b, quote) >= position_size

\* the step records the Position of the attempt under way: its buy was
\* submitted in this iteration and observed filled, and its stop is
\* submitted in the same step
RecordsOwnPosition ==
  /\ pc = "p_stop"
  /\ entry_id > orders_start
  /\ wait_res = "order"
  /\ seen_status = "filled"
  /\ Len(orders') = Len(orders) + 1
  /\ orders'[Len(orders')].side = "sell"
  /\ orders'[Len(orders')].entry = entry_id
  /\ active_positions' =
       {[qty |-> orders[entry_id].qty,
         entry_price |-> orders[entry_id].filled_avg_price,
         stop_percent |-> TrailingStopHundredths]}

\* C17: once a Position is recorded no step of the bot removes it, whatever
\* the brokerage position has become; active_positions changes only by
\* being written when an entry attempt has filled and its stop is
\* submitted, and every other step leaves it unchanged.
C17_PositionNeverRemoved ==
  [][/\ active_positions # {} => active_positions' # {}
     /\ active_positions' # active_positions => RecordsOwnPosition]_vars

\* C17 witness: a Position was recorded, its stop has sold and the
\* brokerage held nothing; a later attempt has filled and submitted its
\* stop, and the entry now holds the Position of that attempt, another
\* quantity than the first
C17_Witness ==
  /\ Len(orders) = 4
  /\ orders[2].side = "sell"
  /\ orders[2].status = "filled"
  /\ orders[4].side = "sell"
  /\ orders[3].qty # orders[1].qty
  /\ active_positions = {Position(orders[3].qty,
                                   orders[3].filled_avg_price)}
  /\ result = "pair"
  /\ pc = "sleep"

\* every stop stands right after the buy it protects
StopFollowsItsBuy ==
  \A j \in 1..Len(orders) :
    orders[j].side = "sell" =>
      j > 1 /\ orders[j].entry = j - 1 /\ orders[j - 1].side = "buy"

\* a stop or a Position comes from the attempt under way, after its fill
OnlyOwnAttempt ==
  (\/ Len(orders') > Len(orders) /\ orders'[Len(orders')].side = "sell"
   \/ active_positions' # active_positions) => RecordsOwnPosition

\* buys that filled after the wait for them had ended
LateFills ==
  {i \in 1..Len(orders) :
     orders[i].side = "buy" /\ orders[i].status = "filled"
     /\ orders[i].late}

\* no stop has been submitted for a buy that filled late
NoStopForLateFill ==
  \A i \in LateFills :
    \A j \in 1..Len(orders) : orders[j].side = "sell" => orders[j].entry # i

\* an iteration that checks the position while the brokerage holds a buy
\* that filled late in an earlier iteration goes to its report
LateFillOnlyReported ==
  (/\ pc = "position"
   /\ pc' # "position"
   /\ PositionQty > 0
   /\ \E i \in LateFills : i <= orders_start) => pc' = "report"

\* C18: a trailing stop and a Position are produced only inside the entry
\* attempt that submitted the buy and observed it filled; for a buy that
\* fills after its wait has ended no later iteration submits a stop or
\* records a Position, because the later iterations see a non-zero
\* position and only report.
C18_LateFillOnlyReported ==
  /\ []StopFollowsItsBuy
  /\ []NoStopForLateFill
  /\ [][OnlyOwnAttempt]_vars
  /\ [][LateFillOnlyReported]_vars

\* place_trailing_stop_order is running
InAttempt ==
  pc \in {"p_check", "p_size", "p_price", "p_buy", "w_test", "w_query",
          "w_sleep", "p_stop"}

\* the orders of this iteration: none, a buy, or a buy and its stop
AtMostBuyAndStop ==
  LET n == Len(orders)
  IN  /\ n - orders_start <= 2
      /\ n - orders_start >= 1 => orders[orders_start + 1].side = "buy"
      /\ n - orders_start = 2 => orders[n].side = "sell"

\* C19: every entry attempt terminates: the wait returns once the elapsed
\* time has reached the timeout, also when the order never reaches a
\* terminal status, place_trailing_stop_order returns and the loop comes to
\* its next iteration; an attempt submits at most one buy and one stop.
C19_AttemptTerminates ==
  /\ []AtMostBuyAndStop
  /\ [](pc \in {"w_query", "w_sleep"} =>
          elapsed < OrderWaitTimeout + MaxLatency + PollSleep)
  /\ (pc = "w_test" /\ elapsed >= OrderWaitTimeout) ~> (wait_res = "null")
  /\ InAttempt ~> (pc = "sleep" /\ result # "none")
  /\ InAttempt ~> (pc = "clock")

\* C19 witness: the wait has returned on the timeout, the order still new
C19_Witness ==
  /\ wait_res = "null"
  /\ failed = "timeout"
  /\ elapsed >= OrderWaitTimeout
  /\ orders[entry_id].status = "new"
  /\ pc = "sleep"

====
